---- MODULE Spec2Model ----
(***************************************************************************)
(* Structural s-expression editor (SexprView) over the PrettyExpr tree.    *)
(*                                                                         *)
(* The editor owns a tree `expr` and an optional path `cursor`.  Every     *)
(* editor method is a definition of the same name that maps (expr, cursor) *)
(* to the (expr, cursor) the method leaves behind, plus a flag telling     *)
(* whether one of its unwrap()/index operations panicked.                  *)
(*                                                                         *)
(* Representation                                                          *)
(*  - a node is a record [kind, text, xs, style]; text is a sequence of    *)
(*    one-character strings, xs the sequence of children (the single inner *)
(*    node for Style and Quotation);                                       *)
(*  - Option<T> is a record [some, val];                                   *)
(*  - path indices are usize in the code.  An index is stored here by the  *)
(*    signed (isize) reading of its 64-bit pattern, so `as isize` and      *)
(*    `as usize` keep the stored number; a negative stored number n stands *)
(*    for the usize 2^64 + n, which is out of range for every Vec.         *)
(***************************************************************************)
EXTENDS Integers, Sequences, FiniteSets, TLC

VARIABLES
    expr,       \* SexprView.expr
    cursor,     \* SexprView.cursor : Option<Vec<usize>>
    panicked,   \* the process aborted in an unwrap()/index panic
    last,       \* history: the method call that produced this state
    prev,       \* history: (expr, cursor) before that call, and whether that
                \* state was itself produced by append_at_cursor on an empty list
    frame,      \* the last call into the tree model or the layout engine made
                \* on expr from outside the editor, with what it returned
    width       \* SexprView.width

vars == <<expr, cursor, panicked, last, prev, frame, width>>

(***************************************************************************)
(* Bounds of the model.                                                    *)
(***************************************************************************)
\* an edit that grows the tree is taken only while the tree's weight (its
\* number of nodes plus its number of characters) stays within MaxWeight
MaxWeight == 6

\* the characters the keyboard delivers to append_at_cursor in this model
Chars == {"x"}

\* the directions given to move_cursor_in_list(dir: i8) in this model: both
\* ends of the i8 range and the values around zero
Dirs == {-128, 127} \cup (-7 .. 7)

\* the layout engine and get are given every tree whose weight is at most
\* MaxLayoutWeight, besides the trees of the repository's tests
MaxLayoutWeight == 4

\* get is given every path of at most MaxPathLen indices
MaxPathLen == 2

\* the indices of those paths; -1 is usize::MAX
PathIndices == {0, 1, 2, -1}

\* the styles of Style nodes in the trees given to the layout engine
Styles == {"on_dark_green"}

\* the indent levels at which write is entered
Levels == {0, 1, 3}

\* SexprView::new(exp, 25, 10) in main
MainWidth == 25

\* a view too narrow for its tree: SexprView::new(exp, 4, 10)
NarrowWidth == 4

\* the sink of a frame fails at its first write, or after up to
\* MaxSinkWrites writes that succeeded, or not at all
MaxSinkWrites == 2

(***************************************************************************)
(* PrettyExpr                                                              *)
(***************************************************************************)
NoStyle == "none"

Atom(t) == [kind |-> "Atom", text |-> t, xs |-> <<>>, style |-> NoStyle]

Stat(t) == [kind |-> "Stat", text |-> t, xs |-> <<>>, style |-> NoStyle]

Inline(xs) == [kind |-> "Inline", text |-> <<>>, xs |-> xs, style |-> NoStyle]

Expand(xs) == [kind |-> "Expand", text |-> <<>>, xs |-> xs, style |-> NoStyle]

Style(s, x) == [kind |-> "Style", text |-> <<>>, xs |-> <<x>>, style |-> s]

\* the reserved single-child wrapper of quoted data
Quotation(x) == [kind |-> "Quotation", text |-> <<>>, xs |-> <<x>>, style |-> NoStyle]

\* PrettyExpr::list
list(xs) == Inline(xs)

\* PrettyExpr::Placeholder: empty text is represented as an empty list
Placeholder == Inline(<<>>)

IsList(e) == e.kind \in {"Inline", "Expand"}

(***************************************************************************)
(* Option and Vec helpers                                                  *)
(***************************************************************************)
NoneE == [some |-> FALSE, val |-> Placeholder]

SomeE(x) == [some |-> TRUE, val |-> x]

NoCursor == [some |-> FALSE, path |-> <<>>]

SomePath(p) == [some |-> TRUE, path |-> p]

Front(s) == SubSeq(s, 1, Len(s) - 1)

Last(s) == s[Len(s)]

\* slice::get / Vec indexing: the usize index i addresses an element of a
\* Vec of length n
InRange(i, n) == i >= 0 /\ i < n

\* Vec::remove(i), for an index in range
Remove(s, i) == SubSeq(s, 1, i) \o SubSeq(s, i + 2, Len(s))

\* Vec::insert(i, x), for 0 <= i <= len
Insert(s, i, x) == SubSeq(s, 1, i) \o <<x>> \o SubSeq(s, i + 1, Len(s))

\* Rust's % on isize: the remainder has the sign of the dividend
rem(a, b) == IF a >= 0 THEN a % b ELSE 0 - ((0 - a) % b)

Min(a, b) == IF a <= b THEN a ELSE b

(***************************************************************************)
(* Path addressing                                                         *)
(***************************************************************************)
RECURSIVE get(_, _)

\* a Quotation is addressable like a one-element list
quotation_get(e, path) ==
    IF Head(path) = 0 THEN get(e.xs[1], Tail(path)) ELSE NoneE

\* variant: a Style wrapper is addressed like a one-element list
get_through_style(e, path) ==
    IF path = <<>> THEN SomeE(e)
    ELSE IF IsList(e)
         THEN IF InRange(Head(path), Len(e.xs))
              THEN get(e.xs[Head(path) + 1], Tail(path))
              ELSE NoneE
    ELSE IF e.kind \in {"Quotation", "Style"} THEN quotation_get(e, path)
    ELSE NoneE

get(e, path) ==
    IF e.kind = "Style" THEN get(e.xs[1], path)
    ELSE IF path = <<>> THEN SomeE(e)
    ELSE IF IsList(e)
         THEN IF InRange(Head(path), Len(e.xs))
              THEN get(e.xs[Head(path) + 1], Tail(path))
              ELSE NoneE
    ELSE IF e.kind = "Quotation" THEN quotation_get(e, path)
    ELSE NoneE

is_valid_path(e, path) == get(e, path).some

\* the mutable counterpart of get; agrees with get on every path
get_mut(e, path) == get(e, path)

\* `*x = v` for x = get_mut(e, path).unwrap(): the tree in which the node
\* get addresses is replaced by v (Style wrappers above it stay)
RECURSIVE put(_, _, _)
put(e, path, v) ==
    IF e.kind = "Style" THEN [e EXCEPT !.xs = <<put(e.xs[1], path, v)>>]
    ELSE IF path = <<>> THEN v
    ELSE [e EXCEPT !.xs[Head(path) + 1] = put(@, Tail(path), v)]

\* PrettyExpr::styled
styled(style, exp) == Style(style, exp)

RECURSIVE with_style(_, _, _)

\* the Vec list_with_style builds, or None
list_with_style(xs, p, rest_path, style) ==
    IF ~InRange(p, Len(xs)) THEN [some |-> FALSE, val |-> <<>>]
    ELSE LET x == with_style(xs[p + 1], rest_path, style)
         IN IF ~x.some THEN [some |-> FALSE, val |-> <<>>]
            ELSE [some |-> TRUE, val |-> [xs EXCEPT ![p + 1] = x.val]]

\* variant: the wrapper goes around the Style wrappers of the addressed
\* node, not inside them
with_style_outside(e, path, style) ==
    IF path = <<>> THEN SomeE(styled(style, e))
    ELSE IF e.kind = "Style"
         THEN LET x == with_style(e.xs[1], path, style)
              IN IF x.some THEN SomeE(styled(e.style, x.val)) ELSE NoneE
    ELSE IF IsList(e)
         THEN LET ys == list_with_style(e.xs, Head(path), Tail(path), style)
              IN IF ys.some THEN SomeE([e EXCEPT !.xs = ys.val]) ELSE NoneE
    ELSE NoneE

with_style(e, path, style) ==
    IF e.kind = "Style"
    THEN LET x == with_style(e.xs[1], path, style)
         IN IF x.some THEN SomeE(styled(e.style, x.val)) ELSE NoneE
    ELSE IF path = <<>> THEN SomeE(styled(style, e))
    ELSE IF IsList(e)
         THEN LET ys == list_with_style(e.xs, Head(path), Tail(path), style)
              IN IF ys.some THEN SomeE([e EXCEPT !.xs = ys.val]) ELSE NoneE
    ELSE NoneE

quotation_len == 1

RECURSIVE len(_)
len(e) ==
    IF e.kind \in {"Atom", "Stat"} THEN 0
    ELSE IF IsList(e) THEN Len(e.xs)
    ELSE IF e.kind = "Style" THEN len(e.xs[1])
    ELSE quotation_len

\* the text of a text leaf (Atom); a Stat label is not editable text
get_text(x) == IF x.kind = "Atom" THEN [some |-> TRUE, val |-> x.text]
               ELSE [some |-> FALSE, val |-> <<>>]

is_empty_list(x) == IsList(x) /\ x.xs = <<>>

\* the children as a slice: a list's children, a Quotation's single child
elements(x) == IF IsList(x) \/ x.kind = "Quotation"
               THEN [some |-> TRUE, val |-> x.xs]
               ELSE [some |-> FALSE, val |-> <<>>]

\* the children as a growable Vec: only a list has one
elements_mut(x) == IF IsList(x) THEN [some |-> TRUE, val |-> x.xs]
                   ELSE [some |-> FALSE, val |-> <<>>]

(***************************************************************************)
(* Measures used by the bounds                                             *)
(***************************************************************************)
RECURSIVE SumSeq(_)
SumSeq(s) == IF s = <<>> THEN 0 ELSE Head(s) + SumSeq(Tail(s))

RECURSIVE NodeCount(_)
NodeCount(e) == 1 + SumSeq([i \in 1 .. Len(e.xs) |-> NodeCount(e.xs[i])])

RECURSIVE TextLen(_)
TextLen(e) == Len(e.text) + SumSeq([i \in 1 .. Len(e.xs) |-> TextLen(e.xs[i])])

Weight(e) == NodeCount(e) + TextLen(e)

Fits(e) == Weight(e) <= MaxWeight

(***************************************************************************)
(* Layout engine: inline_width, PrettyFormatter::prepare and write.        *)
(* A call returns [abort, val]: abort tells that it ran into               *)
(* unimplemented!() and never returned.                                    *)
(***************************************************************************)
PrettyFormatter(max_code_width, default_indent) ==
    [max_code_width |-> max_code_width, default_indent |-> default_indent]

\* a call that returned v
Returned(v) == [abort |-> FALSE, val |-> v]

\* inline_width hit unimplemented!()
WidthUnimplemented == [abort |-> TRUE, val |-> 0]

\* prepare was aborted by the inline_width call it made
PrepareAborted == [abort |-> TRUE, val |-> Placeholder]

RECURSIVE is_atom(_)
is_atom(e) ==
    IF e.kind \in {"Atom", "Stat"} THEN TRUE
    ELSE IF IsList(e) THEN FALSE
    ELSE is_atom(e.xs[1])

RECURSIVE inline_width(_)
inline_width(e) ==
    IF e.kind \in {"Atom", "Stat"} THEN Returned(Len(e.text))
    ELSE IF e.kind = "Inline"
         THEN LET ws == [i \in 1 .. Len(e.xs) |-> inline_width(e.xs[i])]
                  n_spaces == IF Len(e.xs) < 2 THEN 0 ELSE Len(e.xs) - 1
              IN IF \E i \in 1 .. Len(e.xs) : ws[i].abort
                 THEN WidthUnimplemented
                 ELSE Returned(2 + SumSeq([i \in 1 .. Len(e.xs) |-> ws[i].val])
                                 + n_spaces)
    ELSE IF e.kind = "Style" THEN inline_width(e.xs[1])
    ELSE WidthUnimplemented

\* variant: an Expand list that fits max_code_width becomes Inline again
RECURSIVE prepare_collapsing(_, _)
prepare_collapsing(pf, pe) ==
    IF pe.kind \in {"Atom", "Stat"} THEN Returned(pe)
    ELSE IF IsList(pe)
         THEN LET w == inline_width(Inline(pe.xs))
              IN IF w.abort THEN PrepareAborted
                 ELSE IF w.val <= pf.max_code_width THEN Returned(Inline(pe.xs))
                 ELSE LET ys == [i \in 1 .. Len(pe.xs) |->
                                     prepare_collapsing(pf, pe.xs[i])]
                      IN IF \E i \in 1 .. Len(pe.xs) : ys[i].abort
                         THEN PrepareAborted
                         ELSE Returned(Expand([i \in 1 .. Len(pe.xs) |-> ys[i].val]))
    ELSE LET y == prepare_collapsing(pf, pe.xs[1])
         IN IF y.abort THEN PrepareAborted ELSE Returned(Style(pe.style, y.val))

RECURSIVE prepare(_, _)
prepare(pf, pe) ==
    IF pe.kind \in {"Atom", "Stat"} THEN Returned(pe)
    ELSE IF pe.kind = "Inline"
         THEN LET w == inline_width(pe)
              IN IF w.abort THEN PrepareAborted
                 ELSE IF w.val <= pf.max_code_width THEN Returned(pe)
                 ELSE LET ys == [i \in 1 .. Len(pe.xs) |-> prepare(pf, pe.xs[i])]
                      IN IF \E i \in 1 .. Len(pe.xs) : ys[i].abort
                         THEN PrepareAborted
                         ELSE Returned(Expand([i \in 1 .. Len(pe.xs) |-> ys[i].val]))
    ELSE IF pe.kind = "Expand" THEN Returned(pe)
    ELSE LET y == prepare(pf, pe.xs[1])
         IN IF y.abort THEN PrepareAborted ELSE Returned(Style(pe.style, y.val))

(***************************************************************************)
(* The calls the engine makes on its Formatter, in order.                  *)
(***************************************************************************)
SinkWrite(text) == [fn |-> "write", text |-> text, level |-> 0, style |-> NoStyle]

SinkWriteIndent(level) ==
    [fn |-> "write_indent", text |-> <<>>, level |-> level, style |-> NoStyle]

SinkSaveStyle == [fn |-> "save_style", text |-> <<>>, level |-> 0, style |-> NoStyle]

SinkSetStyle(s) == [fn |-> "set_style", text |-> <<>>, level |-> 0, style |-> s]

SinkRestoreStyle ==
    [fn |-> "restore_style", text |-> <<>>, level |-> 0, style |-> NoStyle]

RECURSIVE Flatten(_)
Flatten(ss) == IF ss = <<>> THEN <<>> ELSE Head(ss) \o Flatten(Tail(ss))

RECURSIVE write(_, _, _)

write_inline(pf, xs) ==
    <<SinkWrite(<<"(">>)>>
    \o (IF xs = <<>> THEN <<>>
        ELSE write(pf, xs[1], 0)
             \o Flatten([i \in 1 .. Len(xs) - 1 |->
                             <<SinkWrite(<<" ">>)>> \o write(pf, xs[i + 1], 0)]))
    \o <<SinkWrite(<<")">>)>>

\* variant: the children hang under the head of a list the way they hang
\* under an atomic head
write_expanded_hanging(pf, xs, indent_level) ==
    <<SinkWrite(<<"(">>)>>
    \o (IF xs = <<>> THEN <<>>
        ELSE IF Len(xs) = 1 THEN write(pf, xs[1], indent_level)
        ELSE LET level == indent_level + pf.default_indent
             IN write(pf, xs[1], level)
                \o Flatten([i \in 1 .. Len(xs) - 1 |->
                                <<SinkWriteIndent(level)>>
                                \o write(pf, xs[i + 1], level)]))
    \o <<SinkWrite(<<")">>)>>

write_expanded(pf, xs, indent_level) ==
    <<SinkWrite(<<"(">>)>>
    \o (IF xs = <<>> THEN <<>>
        ELSE IF Len(xs) = 1 THEN write(pf, xs[1], indent_level)
        ELSE LET level == IF is_atom(xs[1])
                          THEN indent_level + pf.default_indent
                          ELSE indent_level + 1
             IN write(pf, xs[1], level)
                \o Flatten([i \in 1 .. Len(xs) - 1 |->
                                <<SinkWriteIndent(level)>>
                                \o write(pf, xs[i + 1], level)]))
    \o <<SinkWrite(<<")">>)>>

write(pf, pe, indent_level) ==
    IF pe.kind \in {"Atom", "Stat"} THEN <<SinkWrite(pe.text)>>
    ELSE IF pe.kind = "Inline" THEN write_inline(pf, pe.xs)
    ELSE IF pe.kind = "Expand" THEN write_expanded(pf, pe.xs, indent_level)
    ELSE <<SinkSaveStyle, SinkSetStyle(pe.style)>>
         \o write(pf, pe.xs[1], indent_level)
         \o <<SinkRestoreStyle>>

\* " ".repeat(level)
Spaces(level) == [i \in 1 .. level |-> " "]

\* what one call makes of DisplayFormatter's output: write appends the text,
\* write_indent is write_newline, which writes "\n", and then level spaces;
\* the style calls do nothing
DisplayCall(c) ==
    IF c.fn = "write" THEN c.text
    ELSE IF c.fn = "write_indent" THEN <<"\n">> \o Spaces(c.level)
    ELSE <<>>

\* the string DisplayFormatter has collected after the calls
to_string(calls) == Flatten([i \in 1 .. Len(calls) |-> DisplayCall(calls[i])])

(***************************************************************************)
(* write into a Formatter whose write and write_indent may return an       *)
(* error.  A sink is [calls, left, err]: the calls received, the number of *)
(* fallible calls that still succeed (negative: all of them), and the      *)
(* error a call returned, which `?` hands to the caller.                   *)
(***************************************************************************)
NoError == "ok"

IoError == "io_error"

Sink(left) == [calls |-> <<>>, left |-> left, err |-> NoError]

\* f.write(..)? and f.write_indent(..)?
Fallible(f, call) ==
    IF f.left = 0
    THEN [f EXCEPT !.calls = Append(@, call), !.err = IoError]
    ELSE [f EXCEPT !.calls = Append(@, call),
                   !.left = IF @ > 0 THEN @ - 1 ELSE @]

\* f.save_style(), f.set_style(..), f.restore_style(): they return nothing.
\* (CrosstermFormatter::set_style unwraps its queue!, so a buffer that fails
\* there is a panic of the sink, not an error of the frame; the sinks here
\* fail in calls that return a Result.)
Infallible(f, call) == [f EXCEPT !.calls = Append(@, call)]

RECURSIVE try_write(_, _, _, _)

\* for y in ys { f.write(" ")?; self.write(y, 0, f)?; }
RECURSIVE try_write_inline_rest(_, _, _)
try_write_inline_rest(pf, ys, f) ==
    IF ys = <<>> THEN f
    ELSE LET f1 == Fallible(f, SinkWrite(<<" ">>))
         IN IF f1.err # NoError THEN f1
            ELSE LET f2 == try_write(pf, Head(ys), 0, f1)
                 IN IF f2.err # NoError THEN f2
                    ELSE try_write_inline_rest(pf, Tail(ys), f2)

try_write_inline(pf, xs, f) ==
    LET f1 == Fallible(f, SinkWrite(<<"(">>))
    IN IF f1.err # NoError THEN f1
       ELSE LET f2 == IF xs = <<>> THEN f1
                      ELSE LET g == try_write(pf, xs[1], 0, f1)
                           IN IF g.err # NoError THEN g
                              ELSE try_write_inline_rest(pf, Tail(xs), g)
            IN IF f2.err # NoError THEN f2
               ELSE Fallible(f2, SinkWrite(<<")">>))

\* for y in ys { f.write_indent(indent_level)?; self.write(y, indent_level, f)?; }
RECURSIVE try_write_expanded_rest(_, _, _, _)
try_write_expanded_rest(pf, ys, indent_level, f) ==
    IF ys = <<>> THEN f
    ELSE LET f1 == Fallible(f, SinkWriteIndent(indent_level))
         IN IF f1.err # NoError THEN f1
            ELSE LET f2 == try_write(pf, Head(ys), indent_level, f1)
                 IN IF f2.err # NoError THEN f2
                    ELSE try_write_expanded_rest(pf, Tail(ys), indent_level, f2)

try_write_expanded(pf, xs, indent_level, f) ==
    LET f1 == Fallible(f, SinkWrite(<<"(">>))
    IN IF f1.err # NoError THEN f1
       ELSE LET f2 ==
                IF xs = <<>> THEN f1
                ELSE IF Len(xs) = 1 THEN try_write(pf, xs[1], indent_level, f1)
                ELSE LET level == IF is_atom(xs[1])
                                  THEN indent_level + pf.default_indent
                                  ELSE indent_level + 1
                         g == try_write(pf, xs[1], level, f1)
                     IN IF g.err # NoError THEN g
                        ELSE try_write_expanded_rest(pf, Tail(xs), level, g)
            IN IF f2.err # NoError THEN f2
               ELSE Fallible(f2, SinkWrite(<<")">>))

\* variant: the style is restored also when the inner write returned an
\* error
try_write_restoring(pf, pe, indent_level, f) ==
    IF pe.kind \in {"Atom", "Stat"} THEN Fallible(f, SinkWrite(pe.text))
    ELSE IF pe.kind = "Inline" THEN try_write_inline(pf, pe.xs, f)
    ELSE IF pe.kind = "Expand" THEN try_write_expanded(pf, pe.xs, indent_level, f)
    ELSE LET f1 == Infallible(Infallible(f, SinkSaveStyle), SinkSetStyle(pe.style))
             f2 == try_write(pf, pe.xs[1], indent_level, f1)
         IN Infallible(f2, SinkRestoreStyle)

try_write(pf, pe, indent_level, f) ==
    IF pe.kind \in {"Atom", "Stat"} THEN Fallible(f, SinkWrite(pe.text))
    ELSE IF pe.kind = "Inline" THEN try_write_inline(pf, pe.xs, f)
    ELSE IF pe.kind = "Expand" THEN try_write_expanded(pf, pe.xs, indent_level, f)
    ELSE LET f1 == Infallible(Infallible(f, SinkSaveStyle), SinkSetStyle(pe.style))
             f2 == try_write(pf, pe.xs[1], indent_level, f1)
         IN IF f2.err # NoError THEN f2
            ELSE Infallible(f2, SinkRestoreStyle)

(***************************************************************************)
(* CrosstermFormatter: the style it tracks, its stack of saved styles, and *)
(* the colours in effect on the terminal.                                  *)
(***************************************************************************)
NoColor == "none"

\* the terminal after style::ResetColor, which main queues before a frame
ResetColor == "reset"

\* ContentStyle: foreground_color and background_color are Options
ContentStyle(fg, bg) == [foreground_color |-> fg, background_color |-> bg]

ContentStyleDefault == ContentStyle(NoColor, NoColor)

\* the ContentStyle a Style node of the model carries
StyleValue(s) ==
    IF s = "white_on_black" THEN ContentStyle("white", "black")
    ELSE IF s = "on_dark_green" THEN ContentStyle(NoColor, "dark_green")
    ELSE ContentStyleDefault

CrosstermFormatterNew ==
    [current_style |-> ContentStyleDefault, saved_styles |-> <<>>,
     term_fg |-> ResetColor, term_bg |-> ResetColor, panic |-> FALSE]

crossterm_set_style(cf, style) ==
    [cf EXCEPT !.current_style = style,
               !.term_fg = IF style.foreground_color # NoColor
                           THEN style.foreground_color ELSE @,
               !.term_bg = IF style.background_color # NoColor
                           THEN style.background_color ELSE @]

crossterm_save_style(cf) ==
    [cf EXCEPT !.saved_styles = Append(@, cf.current_style)]

crossterm_restore_style(cf) ==
    IF cf.saved_styles = <<>> THEN [cf EXCEPT !.panic = TRUE]
    ELSE crossterm_set_style([cf EXCEPT !.saved_styles = Front(@)],
                             Last(cf.saved_styles))

\* the formatter after one call of the layout engine
crossterm_call(cf, call) ==
    IF cf.panic THEN cf
    ELSE IF call.fn = "save_style" THEN crossterm_save_style(cf)
    ELSE IF call.fn = "set_style" THEN crossterm_set_style(cf, StyleValue(call.style))
    ELSE IF call.fn = "restore_style" THEN crossterm_restore_style(cf)
    ELSE cf

\* the formatter after each of the calls
RECURSIVE crossterm_trace(_, _)
crossterm_trace(cf, calls) ==
    IF calls = <<>> THEN <<>>
    ELSE LET next == crossterm_call(cf, Head(calls))
         IN <<next>> \o crossterm_trace(next, Tail(calls))

(***************************************************************************)
(* SexprView methods: (expr, cursor) -> [expr, cursor, panic]              *)
(***************************************************************************)
Ok(e, c) == [expr |-> e, cursor |-> c, panic |-> FALSE]

Panic(e, c) == [expr |-> e, cursor |-> c, panic |-> TRUE]

\* variant: the other cursor policy, where the root path is the outermost
\* selection and move-out stays on it
move_cursor_out_of_list_stays_at_root(e, c) ==
    IF ~c.some THEN Ok(e, c)
    ELSE IF c.path = <<>> THEN Ok(e, c)
    ELSE IF is_valid_path(e, c.path) THEN Ok(e, SomePath(Front(c.path)))
    ELSE Ok(e, c)

move_cursor_out_of_list(e, c) ==
    IF ~c.some THEN Ok(e, c)
    ELSE IF c.path = <<>> THEN Ok(e, NoCursor)
    ELSE IF is_valid_path(e, c.path) THEN Ok(e, SomePath(Front(c.path)))
    ELSE Ok(e, c)

\* variant: the pushed index is kept without the validity check
move_cursor_into_list_unchecked(e, c) ==
    IF ~c.some THEN Ok(e, SomePath(<<>>))
    ELSE Ok(e, SomePath(Append(c.path, 0)))

\* variant: a failed descent selects the root instead of reverting
move_cursor_into_list_or_root(e, c) ==
    IF ~c.some THEN Ok(e, SomePath(<<>>))
    ELSE LET pushed == Append(c.path, 0)
         IN IF is_valid_path(e, pushed) THEN Ok(e, SomePath(pushed))
            ELSE Ok(e, SomePath(<<>>))

move_cursor_into_list(e, c) ==
    IF ~c.some THEN Ok(e, SomePath(<<>>))
    ELSE LET pushed == Append(c.path, 0)
         IN IF is_valid_path(e, pushed) THEN Ok(e, SomePath(pushed)) ELSE Ok(e, c)

\* variant: the index stops at the ends of the list instead of wrapping
move_cursor_in_list_clamped(e, c, dir) ==
    IF ~c.some THEN Ok(e, SomePath(<<>>))
    ELSE IF c.path = <<>> THEN Ok(e, c)
    ELSE LET rest == Front(c.path)
             new_pos == Last(c.path) + dir
             parent == get(e, rest)
         IN IF ~parent.some THEN Panic(e, c)
            ELSE LET l == len(parent.val)
                 IN IF l = 0 THEN Panic(e, c)
                    ELSE Ok(e, SomePath(Append(rest,
                             IF new_pos < 0 THEN 0 ELSE Min(new_pos, l - 1))))

move_cursor_in_list(e, c, dir) ==
    IF ~c.some THEN Ok(e, SomePath(<<>>))
    ELSE IF c.path = <<>> THEN Ok(e, c)
    ELSE LET rest == Front(c.path)
             new_pos == Last(c.path) + dir
             parent == get(e, rest)
         IN IF ~parent.some THEN Panic(e, c)
            ELSE LET l == len(parent.val)
                 IN IF l = 0 THEN Panic(e, c)
                    ELSE Ok(e, SomePath(Append(rest, rem(new_pos + l, l))))

\* variant: the character is put in front of the text
append_at_cursor_prepends(e, c, postfix) ==
    IF ~c.some THEN Ok(e, c)
    ELSE LET x == get_mut(e, c.path)
         IN IF ~x.some THEN Panic(e, c)
            ELSE IF get_text(x.val).some
                 THEN Ok(put(e, c.path, Atom(postfix \o get_text(x.val).val)), c)
            ELSE IF is_empty_list(x.val)
                 THEN move_cursor_into_list(
                          put(e, c.path, [x.val EXCEPT !.xs = Append(@, Atom(postfix))]),
                          c)
            ELSE Ok(e, c)

\* variant: the cursor stays on the list that received the new leaf
append_at_cursor_stays(e, c, postfix) ==
    IF ~c.some THEN Ok(e, c)
    ELSE LET x == get_mut(e, c.path)
         IN IF ~x.some THEN Panic(e, c)
            ELSE IF get_text(x.val).some
                 THEN Ok(put(e, c.path, Atom(get_text(x.val).val \o postfix)), c)
            ELSE IF is_empty_list(x.val)
                 THEN Ok(put(e, c.path, [x.val EXCEPT !.xs = Append(@, Atom(postfix))]), c)
            ELSE Ok(e, c)

\* variant: the text of a Stat is edited like the text of an Atom
append_at_cursor_edits_labels(e, c, postfix) ==
    IF ~c.some THEN Ok(e, c)
    ELSE LET x == get_mut(e, c.path)
         IN IF ~x.some THEN Panic(e, c)
            ELSE IF x.val.kind \in {"Atom", "Stat"}
                 THEN Ok(put(e, c.path, Atom(x.val.text \o postfix)), c)
            ELSE IF is_empty_list(x.val)
                 THEN move_cursor_into_list(
                          put(e, c.path, [x.val EXCEPT !.xs = Append(@, Atom(postfix))]),
                          c)
            ELSE Ok(e, c)

append_at_cursor(e, c, postfix) ==
    IF ~c.some THEN Ok(e, c)
    ELSE LET x == get_mut(e, c.path)
         IN IF ~x.some THEN Panic(e, c)
            ELSE IF get_text(x.val).some
                 THEN Ok(put(e, c.path, Atom(get_text(x.val).val \o postfix)), c)
            ELSE IF is_empty_list(x.val)
                 THEN IF ~elements_mut(x.val).some THEN Panic(e, c)
                      ELSE move_cursor_into_list(
                               put(e, c.path,
                                   [x.val EXCEPT !.xs = Append(@, Atom(postfix))]),
                               c)
            ELSE Ok(e, c)

\* variant: the shortened text is stored even when it is empty
delete_at_cursor_keeps_atom(e, c) ==
    IF ~c.some THEN Ok(e, c)
    ELSE LET x == get_mut(e, c.path)
         IN IF ~x.some THEN Panic(e, c)
            ELSE IF get_text(x.val).some
                 THEN Ok(put(e, c.path, Atom(Front(get_text(x.val).val))), c)
            ELSE Ok(e, c)

delete_at_cursor(e, c) ==
    IF ~c.some THEN Ok(e, c)
    ELSE LET x == get_mut(e, c.path)
         IN IF ~x.some THEN Panic(e, c)
            ELSE IF get_text(x.val).some
                 THEN LET text == Front(get_text(x.val).val)
                      IN IF text = <<>>
                         THEN Ok(put(e, c.path, Placeholder), c)
                         ELSE Ok(put(e, c.path, Atom(text)), c)
            ELSE Ok(e, c)

\* variant: the cursor's last index is not clamped after the removal
delete_cursor_element_unclamped(e, c) ==
    IF ~c.some \/ c.path = <<>> THEN Ok(e, c)
    ELSE LET c_list == Front(c.path)
             c_elem == Last(c.path)
             parent == get_mut(e, c_list)
         IN IF ~parent.some THEN Panic(e, c)
            ELSE IF ~elements_mut(parent.val).some THEN Panic(e, c)
            ELSE IF ~InRange(c_elem, Len(parent.val.xs)) THEN Panic(e, c)
            ELSE LET elems == Remove(parent.val.xs, c_elem)
                     e2 == put(e, c_list, [parent.val EXCEPT !.xs = elems])
                 IN IF elems = <<>> THEN Ok(e2, SomePath(c_list)) ELSE Ok(e2, c)

\* variant: with the cursor at the root the whole tree is removed
delete_cursor_element_at_root(e, c) ==
    IF ~c.some THEN Ok(e, c)
    ELSE IF c.path = <<>> THEN Ok(Placeholder, c)
    ELSE LET c_list == Front(c.path)
             c_elem == Last(c.path)
             parent == get_mut(e, c_list)
         IN IF ~parent.some THEN Panic(e, c)
            ELSE IF ~elements_mut(parent.val).some THEN Panic(e, c)
            ELSE IF ~InRange(c_elem, Len(parent.val.xs)) THEN Panic(e, c)
            ELSE LET elems == Remove(parent.val.xs, c_elem)
                     e2 == put(e, c_list, [parent.val EXCEPT !.xs = elems])
                 IN IF elems = <<>>
                    THEN Ok(e2, SomePath(c_list))
                    ELSE Ok(e2, SomePath(Append(c_list, Min(c_elem, Len(elems) - 1))))

delete_cursor_element(e, c) ==
    IF ~c.some \/ c.path = <<>> THEN Ok(e, c)
    ELSE LET c_list == Front(c.path)
             c_elem == Last(c.path)
             parent == get_mut(e, c_list)
         IN IF ~parent.some THEN Panic(e, c)
            ELSE IF ~elements_mut(parent.val).some THEN Panic(e, c)
            ELSE IF ~InRange(c_elem, Len(parent.val.xs)) THEN Panic(e, c)
            ELSE LET elems == Remove(parent.val.xs, c_elem)
                     e2 == put(e, c_list, [parent.val EXCEPT !.xs = elems])
                 IN IF elems = <<>>
                    THEN Ok(e2, SomePath(c_list))
                    ELSE Ok(e2, SomePath(Append(c_list, Min(c_elem, Len(elems) - 1))))

\* variant: the new list is inserted at the cursor's index, not after it
insert_element_before_cursor(e, c) ==
    IF ~c.some \/ c.path = <<>> THEN Ok(e, c)
    ELSE LET c_list == Front(c.path)
             c_elem == Last(c.path)
             parent == get_mut(e, c_list)
         IN IF ~parent.some THEN Panic(e, c)
            ELSE IF ~elements_mut(parent.val).some THEN Panic(e, c)
            ELSE IF ~(c_elem >= 0 /\ c_elem <= Len(parent.val.xs)) THEN Panic(e, c)
            ELSE move_cursor_in_list(
                     put(e, c_list,
                         [parent.val EXCEPT !.xs = Insert(@, c_elem, Inline(<<>>))]),
                     c, 1)

\* c_elem + 1 overflows usize only for c_elem = usize::MAX (stored as -1): a
\* panic with overflow checks, index 0 without them.  No specification of
\* this module calls the method with such a cursor; the panic is modelled.
insert_element_after_cursor(e, c) ==
    IF ~c.some \/ c.path = <<>> THEN Ok(e, c)
    ELSE LET c_list == Front(c.path)
             c_elem == Last(c.path)
             parent == get_mut(e, c_list)
         IN IF ~parent.some THEN Panic(e, c)
            ELSE IF ~elements_mut(parent.val).some THEN Panic(e, c)
            ELSE IF ~(c_elem >= 0 /\ c_elem + 1 <= Len(parent.val.xs)) THEN Panic(e, c)
            ELSE move_cursor_in_list(
                     put(e, c_list,
                         [parent.val EXCEPT !.xs = Insert(@, c_elem + 1, Inline(<<>>))]),
                     c, 1)

\* variant: the cursor descends into the new list
wrap_cursor_in_list_descending(e, c) ==
    IF ~c.some THEN Ok(e, c)
    ELSE LET x == get_mut(e, c.path)
         IN IF ~x.some THEN Panic(e, c)
            ELSE Ok(put(e, c.path, list(<<x.val>>)), SomePath(Append(c.path, 0)))

wrap_cursor_in_list(e, c) ==
    IF ~c.some THEN Ok(e, c)
    ELSE LET x == get_mut(e, c.path)
         IN IF ~x.some THEN Panic(e, c)
            ELSE Ok(put(e, c.path, list(<<x.val>>)), c)

\* variant: any list with children is replaced by its first child
unwrap_first_at_cursor(e, c) ==
    IF ~c.some THEN Ok(e, c)
    ELSE LET x == get_mut(e, c.path)
         IN IF ~x.some THEN Panic(e, c)
            ELSE IF elements(x.val).some /\ Len(elements(x.val).val) >= 1
                 THEN Ok(put(e, c.path, elements(x.val).val[1]), c)
            ELSE Ok(e, c)

unwrap_unary_list_at_cursor(e, c) ==
    IF ~c.some THEN Ok(e, c)
    ELSE LET x == get_mut(e, c.path)
         IN IF ~x.some THEN Panic(e, c)
            ELSE IF elements(x.val).some /\ Len(elements(x.val).val) = 1
                 THEN Ok(put(e, c.path, elements(x.val).val[1]), c)
            ELSE Ok(e, c)

\* quote: replaces the addressed node with a Quotation wrapping it
quote_cursor(e, c) ==
    IF ~c.some THEN Ok(e, c)
    ELSE LET x == get_mut(e, c.path)
         IN IF ~x.some THEN Panic(e, c)
            ELSE Ok(put(e, c.path, Quotation(x.val)), c)

(***************************************************************************)
(* Initial trees: SexprView::new(expr, ..) puts the cursor at [1].         *)
(***************************************************************************)
\* pe![(f "a")] under a root style, the way main styles its tree
TreeStyled == Style("white_on_black", list(<<Stat(<<"f">>), Atom(<<"a">>)>>))

\* pe![(f "a")]
TreePlain == list(<<Stat(<<"f">>), Atom(<<"a">>)>>)

\* pe![((x) (a b c) (y))]
TreeScenario ==
    list(<<list(<<Stat(<<"x">>)>>),
           list(<<Stat(<<"a">>), Stat(<<"b">>), Stat(<<"c">>)>>),
           list(<<Stat(<<"y">>)>>)>>)

InitTrees == {TreeStyled, TreePlain}

NavTrees == InitTrees \cup {TreeScenario}

\* no call recorded
NoFrame ==
    [op |-> "none", pf |-> PrettyFormatter(0, 0), level |-> 0, path |-> <<>>,
     abort |-> FALSE, width |-> 0, tree |-> Placeholder, found |-> NoneE,
     out |-> <<>>, err |-> NoError, term |-> <<>>, left |-> 0]

New(trees) ==
    /\ expr \in trees
    /\ cursor = SomePath(<<1>>)
    /\ panicked = FALSE
    /\ last = [op |-> "new", dir |-> 0, ch |-> ""]
    /\ prev = [expr |-> expr, cursor |-> cursor, fresh |-> FALSE]
    /\ frame = NoFrame
    /\ width = MainWidth

Init == New(InitTrees)

InitNav == New(NavTrees)

(***************************************************************************)
(* Actions: one per editor method, as dispatched by handle_event.          *)
(***************************************************************************)
\* the node the cursor addresses is an empty list
AtEmptyList(e, c) ==
    c.some /\ get(e, c.path).some /\ is_empty_list(get(e, c.path).val)

\* a method call is taken while the process lives; an edit that would grow
\* the tree past the model's bound is not taken
Taken(r) == ~panicked /\ (Weight(r.expr) <= Weight(expr) \/ Fits(r.expr))

\* the state a method call that returned r leaves behind
After(r, op, dir, ch) ==
    /\ expr' = r.expr
    /\ cursor' = r.cursor
    /\ panicked' = r.panic
    /\ last' = [op |-> op, dir |-> dir, ch |-> ch]
    /\ prev' = [expr |-> expr, cursor |-> cursor,
                fresh |-> last.op = "append_at_cursor"
                          /\ AtEmptyList(prev.expr, prev.cursor)]
    /\ frame' = frame
    /\ width' = width

KeyLeft ==
    LET r == move_cursor_out_of_list(expr, cursor)
    IN Taken(r) /\ After(r, "move_cursor_out_of_list", 0, "")

KeyRight ==
    LET r == move_cursor_into_list(expr, cursor)
    IN Taken(r) /\ After(r, "move_cursor_into_list", 0, "")

KeyDown ==
    LET r == move_cursor_in_list(expr, cursor, 1)
    IN Taken(r) /\ After(r, "move_cursor_in_list", 1, "")

KeyUp ==
    LET r == move_cursor_in_list(expr, cursor, -1)
    IN Taken(r) /\ After(r, "move_cursor_in_list", -1, "")

KeyChar ==
    \E ch \in Chars :
        LET r == append_at_cursor(expr, cursor, <<ch>>)
        IN Taken(r) /\ After(r, "append_at_cursor", 0, ch)

KeyBackspace ==
    LET r == delete_at_cursor(expr, cursor)
    IN Taken(r) /\ After(r, "delete_at_cursor", 0, "")

KeyDelete ==
    LET r == delete_cursor_element(expr, cursor)
    IN Taken(r) /\ After(r, "delete_cursor_element", 0, "")

KeySpace ==
    LET r == insert_element_after_cursor(expr, cursor)
    IN Taken(r) /\ After(r, "insert_element_after_cursor", 0, "")

KeyWrap ==
    LET r == wrap_cursor_in_list(expr, cursor)
    IN Taken(r) /\ After(r, "wrap_cursor_in_list", 0, "")

KeyUnwrap ==
    LET r == unwrap_unary_list_at_cursor(expr, cursor)
    IN Taken(r) /\ After(r, "unwrap_unary_list_at_cursor", 0, "")

\* the quote event
KeyQuote ==
    LET r == quote_cursor(expr, cursor)
    IN Taken(r) /\ After(r, "quote_cursor", 0, "")

\* a direct call of the public method move_cursor_in_list(dir: i8)
MoveSibling ==
    \E dir \in Dirs :
        LET r == move_cursor_in_list(expr, cursor, dir)
        IN Taken(r) /\ After(r, "move_cursor_in_list", dir, "")

Next ==
    \/ KeyLeft
    \/ KeyRight
    \/ KeyDown
    \/ KeyUp
    \/ KeyChar
    \/ KeyBackspace
    \/ KeyDelete
    \/ KeySpace
    \/ KeyWrap
    \/ KeyUnwrap

\* the editor as the event handler drives it
Spec == Init /\ [][Next]_vars

NextNav ==
    \/ KeyLeft
    \/ KeyRight
    \/ MoveSibling

\* navigation alone, with every direction move_cursor_in_list accepts
SpecNav == InitNav /\ [][NextNav]_vars

NextQuote ==
    \/ Next
    \/ KeyQuote

\* the editor with the quote operation
InitQuote == New({TreeStyled})

SpecQuote == InitQuote /\ [][NextQuote]_vars

(***************************************************************************)
(* The tree model and the layout engine called on their own, the way the   *)
(* tests of sxfmt.rs call them: one call on one tree.                      *)
(***************************************************************************)
\* the trees of weight at most w, and the sequences of trees of total
\* weight at most w
RECURSIVE TreesUpTo(_)
RECURSIVE ForestsUpTo(_)
TreesUpTo(w) ==
    IF w <= 0 THEN {}
    ELSE {Atom([i \in 1 .. n |-> "x"]) : n \in 1 .. w - 1}
         \cup {Stat([i \in 1 .. n |-> "x"]) : n \in 1 .. w - 1}
         \cup {Inline(xs) : xs \in ForestsUpTo(w - 1)}
         \cup {Expand(xs) : xs \in ForestsUpTo(w - 1)}
         \cup {Style(s, x) : s \in Styles, x \in TreesUpTo(w - 1)}

ForestsUpTo(w) ==
    {<<>>} \cup UNION {{<<x>> \o xs : xs \in ForestsUpTo(w - Weight(x))} :
                          x \in TreesUpTo(w)}

\* pe![(if q a e)]
TreeIf == list(<<Stat(<<"i", "f">>), Stat(<<"q">>), Stat(<<"a">>), Stat(<<"e">>)>>)

\* pe![(let ((a 1) (b 2) (c 3)) ("+" a b))]
TreeLet ==
    list(<<Stat(<<"l", "e", "t">>),
           list(<<list(<<Stat(<<"a">>), Atom(<<"1">>)>>),
                  list(<<Stat(<<"b">>), Atom(<<"2">>)>>),
                  list(<<Stat(<<"c">>), Atom(<<"3">>)>>)>>),
           list(<<Atom(<<"+">>), Stat(<<"a">>), Stat(<<"b">>)>>)>>)

\* pe![(long_name (other_long_name (if q a e)))]
TreeLongName ==
    list(<<Stat(<<"l", "o", "n", "g", "_", "n", "a", "m", "e">>),
           list(<<Stat(<<"o", "t", "h", "e", "r", "_",
                         "l", "o", "n", "g", "_", "n", "a", "m", "e">>),
                  TreeIf>>)>>)

\* the tree of main under its root style, with a second Style wrapper
\* inside it, around the list at [1]
TreeDrawn ==
    Style("white_on_black",
          list(<<Stat(<<"l", "e", "t">>),
                 Style("on_dark_green",
                       list(<<list(<<Stat(<<"a">>), Atom(<<"1">>)>>),
                              list(<<Stat(<<"b">>), Atom(<<"2">>)>>),
                              list(<<Stat(<<"c">>), Atom(<<"3">>)>>)>>)),
                 list(<<Atom(<<"+">>), Stat(<<"a">>), Stat(<<"b">>)>>)>>))

LayoutTrees ==
    TreesUpTo(MaxLayoutWeight) \cup {TreeIf, TreeLet, TreeLongName, TreeDrawn}

\* PrettyFormatter::new(15, 2) is the formatter of the tests and the
\* default; the narrower ones make the small trees overflow
Formatters ==
    {PrettyFormatter(15, 2), PrettyFormatter(4, 3), PrettyFormatter(2, 1)}

Paths == UNION {[1 .. n -> PathIndices] : n \in 0 .. MaxPathLen}

InitLayout ==
    /\ expr \in LayoutTrees
    /\ cursor = NoCursor
    /\ panicked = FALSE
    /\ last = [op |-> "new", dir |-> 0, ch |-> ""]
    /\ prev = [expr |-> expr, cursor |-> cursor, fresh |-> FALSE]
    /\ frame = NoFrame
    /\ width = MainWidth

\* no call has been made on the tree yet
Fresh == frame.op = "none"

\* the call is recorded in frame; the tree is only read
Called(f) ==
    /\ frame' = f
    /\ UNCHANGED <<expr, cursor, panicked, last, prev, width>>

\* expr.inline_width(): the call prepare makes on a list and, from there,
\* on every node below it
InlineWidth ==
    LET w == inline_width(expr)
    IN Fresh /\ Called([NoFrame EXCEPT !.op = "inline_width",
                                       !.abort = w.abort, !.width = w.val])

\* pf.prepare(expr)
Prepare ==
    \E pf \in Formatters :
        LET r == prepare(pf, expr)
        IN Fresh /\ Called([NoFrame EXCEPT !.op = "prepare", !.pf = pf,
                                           !.abort = r.abort, !.tree = r.val])

\* pf.write(&pf.prepare(expr), level, f); level 0 with a DisplayFormatter
\* f is pf.pretty(expr).to_string().  term is what a CrosstermFormatter
\* becomes call by call
Write ==
    \E pf \in Formatters, level \in Levels :
        LET r == prepare(pf, expr)
            calls == IF r.abort THEN <<>> ELSE write(pf, r.val, level)
        IN Fresh /\ Called([NoFrame EXCEPT
                       !.op = "write", !.pf = pf, !.level = level,
                       !.abort = r.abort, !.tree = r.val,
                       !.out = calls,
                       !.term = crossterm_trace(CrosstermFormatterNew, calls)])

\* pf.pretty(expr).with_style(path, style): the highlight of draw
Highlight ==
    /\ Fresh
    /\ \E pf \in Formatters :
           \E r \in {prepare(pf, expr)} :
               \E path \in Paths :
                   Called([NoFrame EXCEPT
                       !.op = "with_style", !.pf = pf, !.path = path,
                       !.abort = r.abort, !.tree = r.val,
                       !.found = IF r.abort THEN NoneE
                                 ELSE with_style(r.val, path, "on_dark_green")])

\* expr.get(path)
Lookup ==
    \E path \in Paths :
        Fresh /\ Called([NoFrame EXCEPT !.op = "get", !.path = path,
                                        !.found = get(expr, path)])

NextLayout ==
    \/ InlineWidth
    \/ Prepare
    \/ Write
    \/ Lookup
    \/ Highlight

SpecLayout == InitLayout /\ [][NextLayout]_vars

(***************************************************************************)
(* SexprView::draw and the event dispatch, as the loop of main runs them.  *)
(***************************************************************************)
\* queue!(buf, ..)? outside the layout engine: it uses up one of the calls
\* the sink still takes, or returns the error
Queued(f) ==
    IF f.left = 0 THEN [f EXCEPT !.err = IoError]
    ELSE [f EXCEPT !.left = IF @ > 0 THEN @ - 1 ELSE @]

\* what draw returns and leaves behind
Drawn(e, c, panic, f, tree) ==
    [expr |-> e, cursor |-> c, panic |-> panic, err |-> f.err,
     calls |-> f.calls, tree |-> tree]

\* the highlighted display tree of draw, or its panic
Highlighted(e, c, w) ==
    LET pf == PrettyFormatter(w, 2)
        pe == prepare(pf, e)
    IN IF pe.abort THEN [abort |-> TRUE, val |-> Placeholder]
       ELSE IF ~c.some THEN Returned(pe.val)
       ELSE LET shown == with_style(pe.val, c.path, "on_dark_green")
            IN IF shown.some THEN Returned(shown.val)
               ELSE [abort |-> TRUE, val |-> Placeholder]

\* variant: the prepared tree is stored in the view
draw_storing(e, c, w, f) ==
    LET f0 == Queued(f)
    IN IF f0.err # NoError THEN Drawn(e, c, FALSE, f0, Placeholder)
       ELSE LET pe == Highlighted(e, c, w)
            IN IF pe.abort THEN Drawn(e, c, TRUE, f0, Placeholder)
               ELSE Drawn(prepare(PrettyFormatter(w, 2), e).val, c, FALSE,
                          try_write(PrettyFormatter(w, 2), pe.val, 0, f0), pe.val)

\* SexprView::draw(&self, buf, x, y) on a buffer that behaves as f
draw(e, c, w, f) ==
    LET f0 == Queued(f)
    IN IF f0.err # NoError THEN Drawn(e, c, FALSE, f0, Placeholder)
       ELSE LET pe == Highlighted(e, c, w)
            IN IF pe.abort THEN Drawn(e, c, TRUE, f0, Placeholder)
               ELSE Drawn(e, c, FALSE,
                          try_write(PrettyFormatter(w, 2), pe.val, 0, f0), pe.val)

\* Event::Key(KeyEvent { code, .. }); ch is the character of code Char
KeyEvent(code, ch) == [code |-> code, ch |-> ch]

\* the characters typed: the three the dispatch singles out and another one
TypedChars == {"(", ")", " "} \cup Chars

\* Other is any event no arm of the match names
Events ==
    {KeyEvent(code, "") : code \in {"Left", "Right", "Down", "Up", "Delete",
                                    "PageUp", "PageDown", "Backspace", "Esc",
                                    "Other"}}
        \cup {KeyEvent("Char", ch) : ch \in TypedChars}

\* variant: the arm Char(ch) comes before the arms of '(', ')' and ' '
handle_event_char_first(e, c, event) ==
    IF event.code = "Left" THEN move_cursor_out_of_list(e, c)
    ELSE IF event.code = "Right" THEN move_cursor_into_list(e, c)
    ELSE IF event.code = "Down" THEN move_cursor_in_list(e, c, 1)
    ELSE IF event.code = "Up" THEN move_cursor_in_list(e, c, -1)
    ELSE IF event.code = "Delete" THEN delete_cursor_element(e, c)
    ELSE IF event.code = "PageUp" THEN wrap_cursor_in_list(e, c)
    ELSE IF event.code = "PageDown" THEN unwrap_unary_list_at_cursor(e, c)
    ELSE IF event.code = "Char" THEN append_at_cursor(e, c, <<event.ch>>)
    ELSE IF event.code = "Backspace" THEN delete_at_cursor(e, c)
    ELSE Ok(e, c)

\* the match on the event: the same arms in main and in handle_event
handle_event(e, c, event) ==
    IF event.code = "Left" THEN move_cursor_out_of_list(e, c)
    ELSE IF event.code = "Right" THEN move_cursor_into_list(e, c)
    ELSE IF event.code = "Down" THEN move_cursor_in_list(e, c, 1)
    ELSE IF event.code = "Up" THEN move_cursor_in_list(e, c, -1)
    ELSE IF event.code = "Delete" THEN delete_cursor_element(e, c)
    ELSE IF event.code = "PageUp" THEN wrap_cursor_in_list(e, c)
    ELSE IF event.code = "PageDown" THEN unwrap_unary_list_at_cursor(e, c)
    ELSE IF event.code = "Char" /\ event.ch = "(" THEN wrap_cursor_in_list(e, c)
    ELSE IF event.code = "Char" /\ event.ch = ")" THEN Ok(e, c)
    ELSE IF event.code = "Char" /\ event.ch = " "
         THEN insert_element_after_cursor(e, c)
    ELSE IF event.code = "Char" THEN append_at_cursor(e, c, <<event.ch>>)
    ELSE IF event.code = "Backspace" THEN delete_at_cursor(e, c)
    ELSE Ok(e, c)

\* the queue! and Formatter write calls a frame's buffer takes before one
\* returns an error; -1 is a buffer that takes them all
SinkBudgets == -1 .. MaxSinkWrites + 1

\* the view of main and one narrower than its tree
Widths == {MainWidth, NarrowWidth}

InitMain ==
    /\ expr = TreeStyled
    /\ cursor = SomePath(<<1>>)
    /\ panicked = FALSE
    /\ last = [op |-> "new", dir |-> 0, ch |-> ""]
    /\ prev = [expr |-> expr, cursor |-> cursor, fresh |-> FALSE]
    /\ frame = NoFrame
    /\ width \in Widths

\* Framed::new(sxv.clone()).draw(&mut stdout, 7, 20)?: the frame of one
\* turn of the loop.  An Err ends main.  The border of Framed is queued on
\* the same buffer before draw is entered and touches nothing of the view.
Draw ==
    /\ frame.op = "none"
    /\ ~panicked
    /\ \E left \in SinkBudgets :
           \E r \in {draw(expr, cursor, width, Sink(left))} :
               /\ expr' = r.expr
               /\ cursor' = r.cursor
               /\ panicked' = r.panic
               /\ last' = [op |-> "draw", dir |-> 0, ch |-> ""]
               /\ prev' = [expr |-> expr, cursor |-> cursor, fresh |-> FALSE]
               /\ frame' = [NoFrame EXCEPT
                                !.op = "draw", !.pf = PrettyFormatter(width, 2),
                                !.abort = r.panic, !.tree = r.tree,
                                !.out = r.calls, !.err = r.err, !.left = left]
               /\ width' = width

\* match read()? { .. }: one event after a frame that was drawn; Esc leaves
\* the loop
HandleEvent ==
    /\ frame.op = "draw"
    /\ frame.err = NoError
    /\ \E event \in Events :
           \E r \in {handle_event(expr, cursor, event)} :
               /\ Taken(r)
               /\ expr' = r.expr
               /\ cursor' = r.cursor
               /\ panicked' = r.panic
               /\ last' = [op |-> event.code, dir |-> 0, ch |-> event.ch]
               /\ prev' = [expr |-> expr, cursor |-> cursor, fresh |-> FALSE]
               /\ frame' = IF event.code = "Esc"
                           THEN [NoFrame EXCEPT !.op = "break"]
                           ELSE NoFrame
               /\ width' = width

NextMain ==
    \/ Draw
    \/ HandleEvent

\* the loop of main: a frame, an event, a frame, ..
SpecMain == InitMain /\ [][NextMain]_vars

(***************************************************************************)
(* Properties                                                              *)
(***************************************************************************)
\* the cursor resolved before the last call
PrevValid == prev.cursor.some /\ get(prev.expr, prev.cursor.path).some

\* the node the cursor addressed before the last call
PrevNode == get(prev.expr, prev.cursor.path).val

\* the cursor had a last index before the last call, and resolved
PrevInList == PrevValid /\ prev.cursor.path # <<>>

PrevListPath == Front(prev.cursor.path)

PrevIndex == Last(prev.cursor.path)

\* the children of the cursor's parent before the last call
PrevSiblings == get(prev.expr, PrevListPath).val.xs

\* e1 and e2 differ at most in the node that path addresses
SameOutside(e1, e2, path) == put(e1, path, Placeholder) = put(e2, path, Placeholder)

RECURSIVE NoEmptyAtom(_)
NoEmptyAtom(e) ==
    /\ ~(e.kind = "Atom" /\ e.text = <<>>)
    /\ \A k \in 1 .. Len(e.xs) : NoEmptyAtom(e.xs[k])

\* C1: after any sequence of editor operations the cursor is the
\* no-selection value or a path that get resolves, and no unwrap() of a
\* get/get_mut/elements_mut result has failed.
CursorAlwaysResolves ==
    /\ ~panicked
    /\ cursor.some => get(expr, cursor.path).some

\* an element was deleted and the cursor had to move to stay on a node
CursorAlwaysResolvesWitness ==
    /\ last.op = "delete_cursor_element"
    /\ PrevInList
    /\ cursor.some
    /\ cursor # prev.cursor
    /\ get(expr, cursor.path).some

\* C2: delete_element at p.i removes exactly child i of the parent at p,
\* keeps the other children in order, and leaves the cursor at p when the
\* parent became empty and at p.min(i, new_length - 1) otherwise, which is
\* an existing node.
DeleteElementRemovesChild ==
    (last.op = "delete_cursor_element" /\ PrevInList) =>
        LET n == Len(PrevSiblings)
            now == get(expr, PrevListPath)
        IN /\ ~panicked
           /\ now.some
           /\ IsList(now.val)
           /\ Len(now.val.xs) = n - 1
           /\ \A k \in 1 .. n - 1 :
                  now.val.xs[k] = IF k <= PrevIndex THEN PrevSiblings[k]
                                  ELSE PrevSiblings[k + 1]
           /\ SameOutside(prev.expr, expr, PrevListPath)
           /\ cursor = IF n = 1 THEN SomePath(PrevListPath)
                       ELSE SomePath(Append(PrevListPath, Min(PrevIndex, n - 2)))
           /\ get(expr, cursor.path).some

\* the last of several children was deleted: the index was clamped
DeleteElementWitness ==
    /\ last.op = "delete_cursor_element"
    /\ PrevInList
    /\ Len(PrevSiblings) >= 2
    /\ PrevIndex = Len(PrevSiblings) - 1
    /\ cursor = SomePath(Append(PrevListPath, PrevIndex - 1))

\* C3: wrap_in_list at p replaces the node at p by a list holding just the
\* old node, and the cursor descends into the new list (cursor = p.0).
WrapDescendsIntoList ==
    (last.op = "wrap_cursor_in_list" /\ PrevValid) =>
        /\ get(expr, prev.cursor.path).some
        /\ get(expr, prev.cursor.path).val = list(<<PrevNode>>)
        /\ cursor = SomePath(Append(prev.cursor.path, 0))

\* C4: insert_after at p.i in a parent of n children leaves n + 1 children,
\* the new child i + 1 an empty list, children 0..i unchanged and the former
\* children i+1..n-1 shifted up by one; the cursor is then p.(i + 1).
InsertAfterAddsPlaceholder ==
    (last.op = "insert_element_after_cursor" /\ PrevInList) =>
        LET n == Len(PrevSiblings)
            now == get(expr, PrevListPath)
        IN /\ ~panicked
           /\ now.some
           /\ IsList(now.val)
           /\ Len(now.val.xs) = n + 1
           /\ now.val.xs[PrevIndex + 2].kind = "Inline"
           /\ now.val.xs[PrevIndex + 2].xs = <<>>
           /\ \A k \in 1 .. PrevIndex + 1 : now.val.xs[k] = PrevSiblings[k]
           /\ \A k \in PrevIndex + 2 .. n : now.val.xs[k + 1] = PrevSiblings[k]
           /\ SameOutside(prev.expr, expr, PrevListPath)
           /\ cursor = SomePath(Append(PrevListPath, PrevIndex + 1))

\* an insertion that is not at the end of the parent
InsertAfterWitness ==
    /\ last.op = "insert_element_after_cursor"
    /\ PrevInList
    /\ PrevIndex < Len(PrevSiblings) - 1
    /\ cursor = SomePath(Append(PrevListPath, PrevIndex + 1))
    /\ is_empty_list(get(expr, cursor.path).val)

\* C5: for every direction d of the i8 range, move_sibling(d) on a valid
\* path p.i whose parent has n children sets the last index to the
\* mathematical (i + d) mod n and changes nothing else; with an empty path
\* the cursor is unchanged.
MoveSiblingIsModular ==
    (last.op = "move_cursor_in_list" /\ PrevValid) =>
        /\ ~panicked
        /\ expr = prev.expr
        /\ cursor = IF prev.cursor.path = <<>> THEN prev.cursor
                    ELSE SomePath(Append(PrevListPath,
                                         (PrevIndex + last.dir) % Len(PrevSiblings)))

\* n applications of move_cursor_in_list(1), one after the other
RECURSIVE MoveDownTimes(_, _, _)
MoveDownTimes(e, c, k) ==
    IF k = 0 THEN Ok(e, c)
    ELSE LET r == move_cursor_in_list(e, c, 1)
         IN IF r.panic THEN r ELSE MoveDownTimes(r.expr, r.cursor, k - 1)

\* C6: from a valid non-empty cursor whose parent has n children, n
\* applications of move_sibling(+1) return the cursor to its path; one
\* move_sibling(+1) from index n - 1 gives index 0 ([1,2] in
\* ((x) (a b c) (y)) becomes [1,0]) and move_sibling(-1) from 0 gives n - 1.
MoveSiblingCycles ==
    /\ (cursor.some /\ cursor.path # <<>> /\ get(expr, cursor.path).some) =>
           LET n == Len(get(expr, Front(cursor.path)).val.xs)
               r == MoveDownTimes(expr, cursor, n)
           IN ~r.panic /\ r.cursor = cursor /\ r.expr = expr
    /\ (last.op = "move_cursor_in_list" /\ PrevInList) =>
           /\ (last.dir = 1 /\ PrevIndex = Len(PrevSiblings) - 1) =>
                  cursor = SomePath(Append(PrevListPath, 0))
           /\ (last.dir = -1 /\ PrevIndex = 0) =>
                  cursor = SomePath(Append(PrevListPath, Len(PrevSiblings) - 1))
           /\ (last.dir \in {1, -1}) => expr = prev.expr /\ ~panicked
    /\ ( /\ last.op = "move_cursor_in_list"
         /\ last.dir = 1
         /\ prev.expr = TreeScenario
         /\ prev.cursor = SomePath(<<1, 2>>) ) => cursor = SomePath(<<1, 0>>)

\* the scenario: [1,2] in ((x) (a b c) (y)) moved down to [1,0]
MoveSiblingCyclesWitness ==
    /\ last.op = "move_cursor_in_list"
    /\ last.dir = 1
    /\ prev.expr = TreeScenario
    /\ prev.cursor = SomePath(<<1, 2>>)
    /\ cursor = SomePath(<<1, 0>>)

\* C7: no Atom of the tree has empty text; delete_char on a text node
\* drops exactly its last character, and a text node that would become
\* empty is replaced by a list with zero children.
AtomsNeverEmpty ==
    /\ NoEmptyAtom(expr)
    /\ (last.op = "delete_at_cursor" /\ PrevValid /\ PrevNode.kind = "Atom") =>
           LET now == get(expr, prev.cursor.path)
           IN /\ ~panicked
              /\ cursor = prev.cursor
              /\ now.some
              /\ IF Len(PrevNode.text) > 1
                 THEN /\ now.val.kind = "Atom"
                      /\ Len(now.val.text) = Len(PrevNode.text) - 1
                      /\ \A k \in 1 .. Len(now.val.text) :
                             now.val.text[k] = PrevNode.text[k]
                 ELSE IsList(now.val) /\ now.val.xs = <<>>
              /\ SameOutside(prev.expr, expr, prev.cursor.path)

\* the last character of a one-character atom was deleted
AtomsNeverEmptyWitness ==
    /\ last.op = "delete_at_cursor"
    /\ PrevValid
    /\ PrevNode.kind = "Atom"
    /\ Len(PrevNode.text) = 1
    /\ is_empty_list(get(expr, cursor.path).val)

\* C8: append_char(ch) on text makes the text the old text followed by ch
\* and keeps the cursor; on a list with zero children it gives that list
\* the single child Atom(ch) and the cursor descends onto it; on a list
\* with one or more children it changes neither tree nor cursor.
AppendCharEffect ==
    (last.op = "append_at_cursor" /\ PrevValid) =>
        LET path == prev.cursor.path
            now == get(expr, path)
        IN /\ ~panicked
           /\ now.some
           /\ PrevNode.kind = "Atom" =>
                  /\ now.val.kind = "Atom"
                  /\ now.val.text = PrevNode.text \o <<last.ch>>
                  /\ cursor = prev.cursor
                  /\ SameOutside(prev.expr, expr, path)
           /\ (IsList(PrevNode) /\ PrevNode.xs = <<>>) =>
                  /\ now.val.kind = PrevNode.kind
                  /\ now.val.xs = <<Atom(<<last.ch>>)>>
                  /\ cursor = SomePath(Append(path, 0))
                  /\ SameOutside(prev.expr, expr, path)
           /\ (IsList(PrevNode) /\ PrevNode.xs # <<>>) =>
                  expr = prev.expr /\ cursor = prev.cursor

\* a character was appended to the text "a"
AppendCharWitness ==
    /\ last.op = "append_at_cursor"
    /\ PrevValid
    /\ PrevNode = Atom(<<"a">>)
    /\ get(expr, cursor.path).val = Atom(<<"a", last.ch>>)

\* C9 as stated: after append_char on an empty-list leaf L and delete_char,
\* the node at L's position is again a list with zero children and the
\* tree has no atom with empty text.
AppendDeleteRestoresEmptyList ==
    (last.op = "delete_at_cursor" /\ prev.fresh) =>
        /\ get(expr, PrevListPath).some
        /\ is_empty_list(get(expr, PrevListPath).val)
        /\ NoEmptyAtom(expr)

\* C9: after append_char on an empty-list leaf L and delete_char, the
\* cursor still addresses L's child, which is now a list with zero
\* children; L is a list with exactly that one child, and the tree has no
\* atom with empty text.
AppendDeleteLeavesEmptyChild ==
    (last.op = "delete_at_cursor" /\ prev.fresh) =>
        /\ ~panicked
        /\ cursor = prev.cursor
        /\ cursor.path # <<>>
        /\ get(expr, cursor.path).some
        /\ is_empty_list(get(expr, cursor.path).val)
        /\ IsList(get(expr, PrevListPath).val)
        /\ Len(get(expr, PrevListPath).val.xs) = 1
        /\ NoEmptyAtom(expr)

\* delete_char right after an append_char that filled an empty list
AppendDeleteWitness ==
    /\ last.op = "delete_at_cursor"
    /\ prev.fresh
    /\ PrevNode.kind = "Atom"

\* C10: unwrap_singleton replaces the addressed node by its single child
\* when that node is a list with exactly one child or a Quotation, keeping
\* the cursor path; for a text leaf, an empty list or a list with two or
\* more children it changes neither tree nor cursor and raises no error.
UnwrapSingletonEffect ==
    (last.op = "unwrap_unary_list_at_cursor" /\ PrevValid) =>
        /\ ~panicked
        /\ cursor = prev.cursor
        /\ IF (IsList(PrevNode) /\ Len(PrevNode.xs) = 1) \/ PrevNode.kind = "Quotation"
           THEN /\ get(expr, cursor.path).some
                /\ get(expr, cursor.path).val = PrevNode.xs[1]
                /\ SameOutside(prev.expr, expr, cursor.path)
           ELSE expr = prev.expr

\* a Quotation was unwrapped
UnwrapSingletonWitness ==
    /\ last.op = "unwrap_unary_list_at_cursor"
    /\ PrevValid
    /\ PrevNode.kind = "Quotation"
    /\ get(expr, cursor.path).val = PrevNode.xs[1]

RECURSIVE OneChildQuotations(_)
OneChildQuotations(e) ==
    /\ e.kind = "Quotation" => Len(e.xs) = 1
    /\ \A k \in 1 .. Len(e.xs) : OneChildQuotations(e.xs[k])

\* the cursor's parent before the last call was a Quotation
PrevInQuotation ==
    PrevInList /\ get(prev.expr, PrevListPath).val.kind = "Quotation"

\* C11: quote replaces the addressed node by a Quotation wrapper, which is
\* not a one-element list; insert_after with the cursor inside a Quotation
\* inserts nothing into the Quotation: the new empty list becomes the next
\* sibling of the Quotation, the cursor addresses it, and every Quotation
\* keeps exactly one child.
InsertAfterLeavesQuotationWhole ==
    /\ OneChildQuotations(expr)
    /\ (last.op = "quote_cursor" /\ PrevValid) =>
           /\ ~panicked
           /\ cursor = prev.cursor
           /\ get(expr, cursor.path).val = Quotation(PrevNode)
           /\ ~IsList(get(expr, cursor.path).val)
           /\ SameOutside(prev.expr, expr, cursor.path)
    /\ (last.op = "insert_element_after_cursor" /\ PrevInQuotation) =>
           /\ ~panicked
           /\ get(expr, PrevListPath) = get(prev.expr, PrevListPath)
           /\ (PrevListPath # <<>> /\ IsList(get(prev.expr, Front(PrevListPath)).val)) =>
                  /\ cursor = SomePath(Append(Front(PrevListPath), Last(PrevListPath) + 1))
                  /\ get(expr, cursor.path).some
                  /\ is_empty_list(get(expr, cursor.path).val)
                  /\ Len(get(expr, Front(PrevListPath)).val.xs)
                         = Len(get(prev.expr, Front(PrevListPath)).val.xs) + 1

\* C12: move_into with cursor path p leaves the cursor at p.0 when
\* get(tree, p.0) resolves, which for a resolving p is when the node at p is
\* a list with at least one child; otherwise the cursor is p again; the
\* tree is the same in both cases.
MoveIntoDescendsOrReverts ==
    (last.op = "move_cursor_into_list" /\ prev.cursor.some) =>
        LET p == prev.cursor.path
            resolves == get(prev.expr, Append(p, 0)).some
        IN /\ ~panicked
           /\ expr = prev.expr
           /\ cursor = IF resolves THEN SomePath(Append(p, 0)) ELSE SomePath(p)
           /\ PrevValid =>
                  (resolves <=> (IsList(PrevNode) /\ Len(PrevNode.xs) >= 1))

\* move_into on an empty list: the cursor is the same path again
MoveIntoWitness ==
    /\ last.op = "move_cursor_into_list"
    /\ PrevValid
    /\ is_empty_list(PrevNode)
    /\ prev.cursor.path # <<>>
    /\ cursor = prev.cursor

\* C13: move_out on a valid non-empty path removes its last segment, on the
\* root path it enters the no-selection state, and in the no-selection
\* state it stays there; from the no-selection state move_into and
\* move_sibling (any direction) select the root path.  None of these
\* changes the tree.
CursorPolicy ==
    /\ NoCursor # SomePath(<<>>)
    /\ last.op = "move_cursor_out_of_list" =>
           /\ ~panicked
           /\ expr = prev.expr
           /\ ~prev.cursor.some => cursor = NoCursor
           /\ (prev.cursor.some /\ prev.cursor.path = <<>>) => cursor = NoCursor
           /\ PrevInList => cursor = SomePath(PrevListPath)
    /\ (last.op \in {"move_cursor_into_list", "move_cursor_in_list"}
            /\ ~prev.cursor.some) =>
           /\ ~panicked
           /\ expr = prev.expr
           /\ cursor = SomePath(<<>>)

\* move_sibling upwards brought the selection back from the no-selection
\* state, which move_out had entered from the root path
CursorPolicyWitness ==
    /\ last.op = "move_cursor_in_list"
    /\ last.dir < 0
    /\ ~prev.cursor.some
    /\ cursor = SomePath(<<>>)

(***************************************************************************)
(* Properties of the tree model and the layout engine                      *)
(***************************************************************************)
\* the tree without its Style wrappers
RECURSIVE StripStyles(_)
StripStyles(e) ==
    IF e.kind = "Style" THEN StripStyles(e.xs[1])
    ELSE [e EXCEPT !.xs = [i \in 1 .. Len(e.xs) |-> StripStyles(e.xs[i])]]

\* how a walk along path ends in a tree without Style wrappers: at a node
\* ("found"), at an index outside the list it indexes ("range"), or with
\* indices left over at a text or label leaf ("leaf")
RECURSIVE Outcome(_, _)
Outcome(e, path) ==
    IF path = <<>> THEN "found"
    ELSE IF ~IsList(e) THEN "leaf"
    ELSE IF Head(path) < 0 \/ Head(path) >= Len(e.xs) THEN "range"
    ELSE Outcome(e.xs[Head(path) + 1], Tail(path))

\* the node a walk that ends at a node ends at
RECURSIVE NodeAt(_, _)
NodeAt(e, path) ==
    IF path = <<>> THEN e ELSE NodeAt(e.xs[Head(path) + 1], Tail(path))

\* C14: get never faults; for every tree and path it returns absence
\* exactly when an index is out of range for the list it indexes or
\* indices are left over at an atom or label, and otherwise the addressed
\* node; get(Styled(s, e), p) = get(e, p), and Styled wrappers at any depth
\* take no index of the path.
GetIsTotal ==
    frame.op = "get" =>
        LET plain == StripStyles(expr)
            how == Outcome(plain, frame.path)
        IN /\ frame.found.some <=> how = "found"
           /\ ~frame.found.some <=> how \in {"range", "leaf"}
           /\ ~frame.found.some => frame.found = NoneE
           /\ frame.found.some =>
                  StripStyles(frame.found.val) = NodeAt(plain, frame.path)
           /\ get(plain, frame.path).some = frame.found.some
           /\ \A s \in Styles \cup {"white_on_black"} :
                  get(Style(s, expr), frame.path) = frame.found

RECURSIVE HasStyle(_)
HasStyle(e) == e.kind = "Style" \/ \E k \in 1 .. Len(e.xs) : HasStyle(e.xs[k])

\* a path of two indices resolved through Style wrappers
GetIsTotalWitness ==
    /\ frame.op = "get"
    /\ Len(frame.path) = 2
    /\ frame.found.some
    /\ HasStyle(expr)
    /\ expr.kind = "Style"

\* C15: inline_width, prepare and write return a result for every tree of
\* Atom, Label, Inline, Expand and Styled nodes; none of them aborts.
LayoutIsTotal ==
    frame.op \in {"inline_width", "prepare", "write"} => ~frame.abort

\* in display every Expand node of e is an Expand node with the same
\* children, and display has the shape of e
RECURSIVE ExpandStays(_, _)
ExpandStays(e, display) ==
    IF e.kind = "Expand" THEN display = e
    ELSE IF e.kind = "Inline"
         THEN /\ IsList(display)
              /\ Len(display.xs) = Len(e.xs)
              /\ \A k \in 1 .. Len(e.xs) : ExpandStays(e.xs[k], display.xs[k])
    ELSE IF e.kind = "Style"
         THEN /\ display.kind = "Style"
              /\ display.style = e.style
              /\ ExpandStays(e.xs[1], display.xs[1])
    ELSE display = e

RECURSIVE WidthOf(_)
WidthOf(e) ==
    IF e.kind \in {"Atom", "Stat"} THEN Len(e.text)
    ELSE IF e.kind = "Style" THEN WidthOf(e.xs[1])
    ELSE 2 + SumSeq([i \in 1 .. Len(e.xs) |-> WidthOf(e.xs[i])])
           + (IF Len(e.xs) < 2 THEN 0 ELSE Len(e.xs) - 1)

\* the calls of a rendering in which every list is inline
RECURSIVE AllInline(_)
AllInline(e) ==
    IF e.kind \in {"Atom", "Stat"} THEN <<SinkWrite(e.text)>>
    ELSE IF e.kind = "Style"
         THEN <<SinkSaveStyle, SinkSetStyle(e.style)>> \o AllInline(e.xs[1])
              \o <<SinkRestoreStyle>>
    ELSE <<SinkWrite(<<"(">>)>>
         \o (IF e.xs = <<>> THEN <<>>
             ELSE AllInline(e.xs[1])
                  \o Flatten([i \in 1 .. Len(e.xs) - 1 |->
                                  <<SinkWrite(<<" ">>)>> \o AllInline(e.xs[i + 1])]))
         \o <<SinkWrite(<<")">>)>>

\* the calls of a rendering in which every list is inline when its width
\* is at most max_code_width and exploded otherwise, entered at level
RECURSIVE ByWidth(_, _, _)
ByWidth(pf, e, level) ==
    IF e.kind \in {"Atom", "Stat"} THEN <<SinkWrite(e.text)>>
    ELSE IF e.kind = "Style"
         THEN <<SinkSaveStyle, SinkSetStyle(e.style)>>
              \o ByWidth(pf, e.xs[1], level) \o <<SinkRestoreStyle>>
    ELSE IF WidthOf(e) <= pf.max_code_width THEN AllInline(e)
    ELSE <<SinkWrite(<<"(">>)>>
         \o (IF e.xs = <<>> THEN <<>>
             ELSE IF Len(e.xs) = 1 THEN ByWidth(pf, e.xs[1], level)
             ELSE LET inner == IF ~IsList(StripStyles(e.xs[1]))
                               THEN level + pf.default_indent
                               ELSE level + 1
                  IN ByWidth(pf, e.xs[1], inner)
                     \o Flatten([i \in 1 .. Len(e.xs) - 1 |->
                                     <<SinkWriteIndent(inner)>>
                                     \o ByWidth(pf, e.xs[i + 1], inner)]))
         \o <<SinkWrite(<<")">>)>>

\* the number of write_indent calls
Breaks(calls) == Cardinality({i \in 1 .. Len(calls) : calls[i].fn = "write_indent"})

\* C17: a list whose inline width exceeds max_width is rendered exploded
\* by write(prepare(list)): with two or more children there is a
\* write_indent before each child but the first, and each child list is
\* rendered inline when its own width fits max_width and exploded
\* otherwise.
WideListIsExploded ==
    ( /\ frame.op = "write"
      /\ IsList(expr)
      /\ WidthOf(expr) > frame.pf.max_code_width ) =>
        /\ ~frame.abort
        /\ frame.out = ByWidth(frame.pf, expr, frame.level)
        /\ Len(expr.xs) >= 2 => Breaks(frame.out) >= Len(expr.xs) - 1

\* the string of a rendering in which every list is inline
InlineString(e) == to_string(AllInline(e))

\* C18: a list whose inline width is at most max_width is rendered by
\* write(prepare(list)), at any indent level, without a line break, as "("
\* then its children separated by one space then ")", in as many characters
\* as its inline width.
NarrowListIsInline ==
    ( /\ frame.op = "write"
      /\ IsList(expr)
      /\ WidthOf(expr) <= frame.pf.max_code_width ) =>
        /\ ~frame.abort
        /\ Breaks(frame.out) = 0
        /\ to_string(frame.out) = InlineString(expr)
        /\ \A i \in 1 .. Len(to_string(frame.out)) : to_string(frame.out)[i] # "\n"
        /\ Len(to_string(frame.out)) = WidthOf(expr)

\* "(let\n  ((a 1)\n   (b 2)\n   (c 3))\n  (+ a b))"
LetRendered ==
    <<"(", "l", "e", "t", "\n", " ", " ", "(", "(", "a", " ", "1",
      ")", "\n", " ", " ", " ", "(", "b", " ", "2", ")", "\n", " ",
      " ", " ", "(", "c", " ", "3", ")", ")", "\n", " ", " ", "(",
      "+", " ", "a", " ", "b", ")", ")">>

\* "(long_name\n  (other_long_name\n    (if q a e)))"
LongNameRendered ==
    <<"(", "l", "o", "n", "g", "_", "n", "a", "m", "e", "\n", " ",
      " ", "(", "o", "t", "h", "e", "r", "_", "l", "o", "n", "g",
      "_", "n", "a", "m", "e", "\n", " ", " ", " ", " ", "(", "i",
      "f", " ", "q", " ", "a", " ", "e", ")", ")", ")">>

\* C19: an Expand list of two or more children written at level k writes
\* its children at level k + default_indent when the first child is an atom
\* or label (also under Styled wrappers) and at k + 1 when it is a list,
\* with a newline and that many spaces before each child but the first; an
\* Expand list without children is "()", and one with a single child writes
\* the child at level k without a line break of its own.  With max_width 15
\* and default_indent 2, (let ((a 1) (b 2) (c 3)) (+ a b)) is rendered as
\* "(let\n  ((a 1)\n   (b 2)\n   (c 3))\n  (+ a b))".
ExpandIndentRule ==
    /\ (frame.op = "write" /\ ~frame.abort /\ frame.tree.kind = "Expand") =>
           LET xs == frame.tree.xs
               n == Len(xs)
               k == frame.level
               inner == IF ~IsList(StripStyles(xs[1]))
                        THEN k + frame.pf.default_indent
                        ELSE k + 1
           IN /\ n = 0 => /\ frame.out = <<SinkWrite(<<"(">>), SinkWrite(<<")">>)>>
                          /\ to_string(frame.out) = <<"(", ")">>
              /\ n = 1 => frame.out = <<SinkWrite(<<"(">>)>>
                                          \o write(frame.pf, xs[1], k)
                                          \o <<SinkWrite(<<")">>)>>
              /\ n >= 2 =>
                     /\ frame.out =
                            <<SinkWrite(<<"(">>)>>
                            \o write(frame.pf, xs[1], inner)
                            \o Flatten([i \in 1 .. n - 1 |->
                                            <<SinkWriteIndent(inner)>>
                                            \o write(frame.pf, xs[i + 1], inner)])
                            \o <<SinkWrite(<<")">>)>>
                     /\ DisplayCall(SinkWriteIndent(inner))
                            = <<"\n">> \o [i \in 1 .. inner |-> " "]
    /\ ( /\ frame.op = "write"
         /\ frame.pf = PrettyFormatter(15, 2)
         /\ frame.level = 0 ) =>
           /\ expr = TreeLet => ~frame.abort /\ to_string(frame.out) = LetRendered
           /\ expr = TreeLongName =>
                  ~frame.abort /\ to_string(frame.out) = LongNameRendered

\* the scenario: (let ((a 1) (b 2) (c 3)) (+ a b)) rendered with max_width
\* 15 and default_indent 2
ExpandIndentWitness ==
    /\ frame.op = "write"
    /\ expr = TreeLet
    /\ frame.pf = PrettyFormatter(15, 2)
    /\ frame.level = 0
    /\ frame.tree.kind = "Expand"
    /\ to_string(frame.out) = LetRendered

\* C20: inline_width is defined for every node: the number of characters
\* of an atom or label; for an Inline or Expand list 2 plus the widths of
\* the children plus one space between neighbours, so 2 for an empty list;
\* and the width of the inner node for a Styled node.
InlineWidthDefined ==
    frame.op = "inline_width" =>
        /\ ~frame.abort
        /\ frame.width = WidthOf(expr)
        /\ \A s \in Styles : inline_width(Style(s, expr)) = inline_width(expr)

\* the texts of the Stat nodes of a tree, in document order
RECURSIVE LabelTexts(_)
LabelTexts(e) ==
    IF e.kind = "Stat" THEN <<e.text>>
    ELSE Flatten([k \in 1 .. Len(e.xs) |-> LabelTexts(e.xs[k])])

Edits == {"append_at_cursor", "delete_at_cursor", "delete_cursor_element",
          "insert_element_after_cursor", "wrap_cursor_in_list",
          "unwrap_unary_list_at_cursor"}

\* C27: without a selection append_char, delete_char, delete_element,
\* insert_after, wrap_in_list and unwrap_singleton leave tree and cursor
\* unchanged, and with the cursor at the root delete_element and
\* insert_after leave tree and cursor unchanged.
NothingEditedWithoutSelection ==
    /\ (last.op \in Edits /\ ~prev.cursor.some) =>
           ~panicked /\ expr = prev.expr /\ cursor = prev.cursor
    /\ ( /\ last.op \in {"delete_cursor_element", "insert_element_after_cursor"}
         /\ prev.cursor = SomePath(<<>>) ) =>
           ~panicked /\ expr = prev.expr /\ cursor = prev.cursor
    /\ \A ch \in Chars : append_at_cursor(expr, NoCursor, <<ch>>) = Ok(expr, NoCursor)
    /\ delete_at_cursor(expr, NoCursor) = Ok(expr, NoCursor)
    /\ delete_cursor_element(expr, NoCursor) = Ok(expr, NoCursor)
    /\ insert_element_after_cursor(expr, NoCursor) = Ok(expr, NoCursor)
    /\ wrap_cursor_in_list(expr, NoCursor) = Ok(expr, NoCursor)
    /\ unwrap_unary_list_at_cursor(expr, NoCursor) = Ok(expr, NoCursor)
    /\ delete_cursor_element(expr, SomePath(<<>>)) = Ok(expr, SomePath(<<>>))
    /\ insert_element_after_cursor(expr, SomePath(<<>>)) = Ok(expr, SomePath(<<>>))

\* delete_element was called with the cursor at the root of an edited tree
NothingEditedWitness ==
    /\ last.op = "delete_cursor_element"
    /\ prev.cursor = SomePath(<<>>)
    /\ cursor = SomePath(<<>>)
    /\ expr = prev.expr
    /\ expr \notin InitTrees

\* unwrap_singleton right after wrap_in_list
WrapThenUnwrap(e, c) ==
    LET w == wrap_cursor_in_list(e, c)
    IN IF w.panic THEN w ELSE unwrap_unary_list_at_cursor(w.expr, w.cursor)

\* C28: from every reachable state with a valid cursor, wrap_in_list
\* followed immediately by unwrap_singleton gives back the same tree, Style
\* wrappers included, and the same cursor.
WrapUnwrapRestores ==
    /\ (cursor.some /\ get(expr, cursor.path).some) =>
           WrapThenUnwrap(expr, cursor) = Ok(expr, cursor)
    /\ ( /\ last.op = "unwrap_unary_list_at_cursor"
         /\ cursor.some
         /\ prev.expr = wrap_cursor_in_list(expr, cursor).expr
         /\ prev.cursor = wrap_cursor_in_list(expr, cursor).cursor ) =>
           WrapThenUnwrap(expr, cursor) = Ok(expr, cursor)

\* a wrap of the styled root was undone by the unwrap that followed it
WrapUnwrapWitness ==
    /\ last.op = "unwrap_unary_list_at_cursor"
    /\ cursor = SomePath(<<>>)
    /\ expr.kind = "Style"
    /\ prev.expr = wrap_cursor_in_list(expr, cursor).expr
    /\ prev.expr # expr
    /\ prev.cursor = cursor

\* the number of calls of fn among the first k calls
RECURSIVE CountCalls(_, _, _)
CountCalls(calls, fn, k) ==
    IF k = 0 THEN 0
    ELSE CountCalls(calls, fn, k - 1) + (IF calls[k].fn = fn THEN 1 ELSE 0)

\* the styles saved and not yet restored after the first k calls
Depth(calls, k) ==
    CountCalls(calls, "save_style", k) - CountCalls(calls, "restore_style", k)

\* the save_style call that the restore_style call k undoes
MatchingSave(calls, k) ==
    CHOOSE j \in 1 .. k - 1 :
        /\ calls[j].fn = "save_style"
        /\ Depth(calls, j - 1) = Depth(calls, k)
        /\ \A i \in j .. k - 1 : Depth(calls, i) > Depth(calls, k)

\* the CrosstermFormatter before call j of a frame
Before(term, j) == IF j = 1 THEN CrosstermFormatterNew ELSE term[j - 1]

RECURSIVE StyleNodes(_)
StyleNodes(e) ==
    (IF e.kind = "Style" THEN 1 ELSE 0)
        + SumSeq([k \in 1 .. Len(e.xs) |-> StyleNodes(e.xs[k])])

\* save_style and restore_style are paired and nested, and each Style node
\* gives save_style, set_style, the inner output, restore_style
StylePaired ==
    (frame.op = "write" /\ ~frame.abort) =>
        LET calls == frame.out
            n == Len(calls)
        IN /\ \A k \in 0 .. n : Depth(calls, k) >= 0
           /\ Depth(calls, n) = 0
           /\ CountCalls(calls, "save_style", n) = StyleNodes(frame.tree)
           /\ \A k \in 1 .. n :
                  calls[k].fn = "save_style" =>
                      k < n /\ calls[k + 1].fn = "set_style"
           /\ frame.tree.kind = "Style" =>
                  calls = <<SinkSaveStyle, SinkSetStyle(frame.tree.style)>>
                              \o write(frame.pf, frame.tree.xs[1], frame.level)
                              \o <<SinkRestoreStyle>>

\* each restore_style leaves the style the formatter tracks as it was
\* before the matching save_style
TrackedStyleRestored ==
    (frame.op = "write" /\ ~frame.abort) =>
        \A k \in 1 .. Len(frame.out) :
            frame.out[k].fn = "restore_style" =>
                /\ ~frame.term[k].panic
                /\ frame.term[k].current_style =
                       Before(frame.term, MatchingSave(frame.out, k)).current_style
                /\ frame.term[k].saved_styles =
                       Before(frame.term, MatchingSave(frame.out, k)).saved_styles

\* each restore_style leaves the colours in effect on the terminal as they
\* were before the matching save_style
TerminalStyleRestored ==
    (frame.op = "write" /\ ~frame.abort) =>
        \A k \in 1 .. Len(frame.out) :
            frame.out[k].fn = "restore_style" =>
                /\ frame.term[k].term_fg =
                       Before(frame.term, MatchingSave(frame.out, k)).term_fg
                /\ frame.term[k].term_bg =
                       Before(frame.term, MatchingSave(frame.out, k)).term_bg

\* C21: during a write that succeeds save_style and restore_style are
\* paired and LIFO, each Style node gives save_style, set_style, its inner
\* output and restore_style, and each restore_style makes the active style,
\* as the sink tracks it and as in effect on the terminal, the style that
\* was active at the matching save_style.
RestoreRevertsStyle ==
    /\ StylePaired
    /\ TrackedStyleRestored
    /\ TerminalStyleRestored

\* a write of a tree with a Style node inside a Style node
NestedStyleWritten ==
    /\ frame.op = "write"
    /\ ~frame.abort
    /\ \E k \in 1 .. Len(frame.out) : Depth(frame.out, k) = 2

RECURSIVE HasExpand(_)
HasExpand(e) ==
    e.kind = "Expand" \/ \E k \in 1 .. Len(e.xs) : HasExpand(e.xs[k])

\* some Inline node of the tree has an Expand node below it
RECURSIVE ExpandInsideInline(_)
ExpandInsideInline(e) ==
    \/ e.kind = "Inline" /\ \E k \in 1 .. Len(e.xs) : HasExpand(e.xs[k])
    \/ \E k \in 1 .. Len(e.xs) : ExpandInsideInline(e.xs[k])

\* C26: for a tree without an Expand inside an Inline, every formatter and
\* every path p, get resolves p in the prepared tree iff it resolves p in
\* the tree; with_style(p, s) returns a tree iff get resolves p, and that
\* tree is its input with one Style wrapper put around the node p
\* addresses; so the highlight of a path that resolves never fails.
HighlightKeepsPaths ==
    /\ frame.op = "with_style" =>
           (with_style(expr, frame.path, "on_dark_green").some
                <=> get(expr, frame.path).some)
    /\ (frame.op = "with_style" /\ ~ExpandInsideInline(expr)) =>
           LET before == get(expr, frame.path)
               shown == get(frame.tree, frame.path)
           IN /\ ~frame.abort
              /\ shown.some <=> before.some
              /\ frame.found.some <=> shown.some
              /\ frame.found.some =>
                     /\ frame.found.val =
                            put(frame.tree, frame.path,
                                Style("on_dark_green", shown.val))
                     /\ StyleNodes(frame.found.val) = StyleNodes(frame.tree) + 1
                     /\ StripStyles(frame.found.val) = StripStyles(frame.tree)
                     /\ get(frame.found.val, frame.path) = shown

\* a node two levels down in a tree that prepare exploded was highlighted
HighlightWitness ==
    /\ frame.op = "with_style"
    /\ ~ExpandInsideInline(expr)
    /\ expr.kind = "Inline"
    /\ frame.tree.kind = "Expand"
    /\ Len(frame.path) = 2
    /\ frame.found.some
    /\ get(frame.found.val, frame.path) = get(frame.tree, frame.path)

\* the write and write_indent calls among the first k calls
Writes(calls, k) ==
    CountCalls(calls, "write", k) + CountCalls(calls, "write_indent", k)

\* C22: when a write call of the sink returns an error during a frame, the
\* engine returns that error and makes no further call of the sink: the
\* calls of the frame are the calls of a faultless write up to and including
\* the one that failed; a frame, failed or not, leaves the tree and the
\* cursor of the editor as they were.
FailedWriteEndsFrame ==
    (frame.op = "draw" /\ ~frame.abort) =>
        LET full == write(frame.pf, frame.tree, 0)
            n == Len(frame.out)
            budget == frame.left - 1
        IN /\ ~panicked
           /\ expr = prev.expr
           /\ cursor = prev.cursor
           /\ frame.err \in {NoError, IoError}
           /\ frame.left = 0 => frame.err = IoError /\ frame.out = <<>>
           /\ frame.left # 0 =>
                  /\ n <= Len(full)
                  /\ frame.out = SubSeq(full, 1, n)
                  /\ frame.err = NoError <=>
                         (frame.left < 0 \/ Writes(full, Len(full)) <= budget)
                  /\ frame.err = NoError => frame.out = full
                  /\ frame.err = IoError =>
                         /\ n >= 1
                         /\ frame.out[n].fn \in {"write", "write_indent"}
                         /\ Writes(frame.out, n) = budget + 1

\* a write failed below two Style nodes, whose styles were not restored
FailedWriteWitness ==
    /\ frame.op = "draw"
    /\ frame.err = IoError
    /\ frame.out # <<>>
    /\ Depth(frame.out, Len(frame.out)) = 2
    /\ expr = prev.expr

\* what the arm of the match that takes the event does
Dispatched(e, c, code, ch) ==
    IF code = "Left" THEN move_cursor_out_of_list(e, c)
    ELSE IF code = "Right" THEN move_cursor_into_list(e, c)
    ELSE IF code = "Down" THEN move_cursor_in_list(e, c, 1)
    ELSE IF code = "Up" THEN move_cursor_in_list(e, c, -1)
    ELSE IF code = "Delete" THEN delete_cursor_element(e, c)
    ELSE IF code \in {"PageUp"} \/ (code = "Char" /\ ch = "(")
         THEN wrap_cursor_in_list(e, c)
    ELSE IF code = "PageDown" THEN unwrap_unary_list_at_cursor(e, c)
    ELSE IF code = "Backspace" THEN delete_at_cursor(e, c)
    ELSE IF code = "Char" /\ ch = " " THEN insert_element_after_cursor(e, c)
    ELSE IF code = "Char" /\ ch \notin {"(", ")", " "}
         THEN append_at_cursor(e, c, <<ch>>)
    ELSE Ok(e, c)

\* no Atom of the tree has one of the characters in its text
RECURSIVE FreeOf(_, _)
FreeOf(e, chars) ==
    /\ e.kind = "Atom" => \A k \in 1 .. Len(e.text) : e.text[k] \notin chars
    /\ \A k \in 1 .. Len(e.xs) : FreeOf(e.xs[k], chars)

\* the events of the loop, as last.op records them
EventCodes == {event.code : event \in Events}

\* C24: an event triggers at most one editor operation: '(' only
\* wrap_in_list, ' ' only insert_after, ')' and an event no arm names
\* nothing, any other character only append_char with that character; no
\* sequence of events puts '(', ')' or a space into the text of an Atom.
OneOperationPerEvent ==
    /\ FreeOf(expr, {"(", ")", " "})
    /\ last.op \in EventCodes =>
           /\ [expr |-> expr, cursor |-> cursor, panic |-> panicked]
                  = Dispatched(prev.expr, prev.cursor, last.op, last.ch)
           /\ (last.op = "Char" /\ last.ch = "(") =>
                  Ok(expr, cursor) = wrap_cursor_in_list(prev.expr, prev.cursor)
           /\ (last.op = "Char" /\ last.ch = " ") =>
                  Ok(expr, cursor)
                      = insert_element_after_cursor(prev.expr, prev.cursor)
           /\ ((last.op = "Char" /\ last.ch = ")") \/ last.op \in {"Other", "Esc"}) =>
                  expr = prev.expr /\ cursor = prev.cursor

\* the key '(' wrapped an Atom in a list, and no character was appended
OneOperationWitness ==
    /\ last.op = "Char"
    /\ last.ch = "("
    /\ PrevValid
    /\ PrevNode.kind = "Atom"
    /\ get(expr, prev.cursor.path).val = list(<<PrevNode>>)

\* C25: the tree the editor stores never has an Expand node; a frame
\* prepares a clone and leaves the stored tree alone, and the prepare of a
\* frame never reaches the unimplemented case of inline_width.
StoredTreeHasNoExpand ==
    /\ ~HasExpand(expr)
    /\ ~prepare(PrettyFormatter(width, 2), expr).abort
    /\ frame.op = "draw" =>
           /\ ~frame.abort
           /\ ~panicked
           /\ expr = prev.expr

\* a frame showed an exploded list, and the stored tree has none
StoredTreeWitness ==
    /\ frame.op = "draw"
    /\ frame.err = NoError
    /\ HasExpand(frame.tree)
    /\ expr = prev.expr
    /\ ~HasExpand(expr)
    /\ expr # TreeStyled

====
